---- MODULE Spec2Model ----
(***************************************************************************)
(* Model of rust-demo.rs: the straight-line procedure main().  Every       *)
(* invocation of the binary is a run with its own locals and its own       *)
(* standard output; runs are stepped statement by statement and            *)
(* interleaved freely.  The build profile (overflow checks on or off) is   *)
(* a property of the binary and is shared by all runs.                     *)
(***************************************************************************)
EXTENDS Integers, Sequences, FiniteSets, TLC

\* Number of invocations of the binary that are stepped side by side.
NumRuns == 2

Runs == 1..NumRuns

VARIABLES
    overflowChecks, \* build profile: TRUE = debug (x * 2 panics on overflow), FALSE = release (wraps)
    pc,             \* pc[r]: the statement run r executes next
    numbers,        \* numbers[r]: the Vec bound at line 7 (<<>> before it is bound)
    iterPos,        \* iterPos[r]: elements the slice iterator of line 10 has yielded
    collected,      \* collected[r]: the Vec that collect() of line 12 is filling
    doubled,        \* doubled[r]: the Vec bound by the let of line 10 (<<>> before it is bound)
    person,         \* person[r]: None, or Some(Person) once lines 25-28 ran
    stdout,         \* stdout[r]: the lines run r has written to standard output
    exitCode        \* exitCode[r]: None while running, Some(code) once the process ended

vars == <<overflowChecks, pc, numbers, iterPos, collected, doubled, person, stdout, exitCode>>

None == <<>>
Some(v) == <<v>>

----------------------------------------------------------------------------
(* i32 arithmetic of the closure |&x| x * 2                                *)

I32Max == 2147483647
I32Min == -I32Max - 1

\* x * 2 does not fit in an i32
MulOverflows(x) == x > I32Max \div 2 \/ x < I32Min \div 2

\* two's-complement result of x * 2 when it does not fit (release profile)
WrappingMul2(x) ==
    IF x > I32Max \div 2
        THEN ((x - (I32Max \div 2 + 1)) * 2 - I32Max) - 1
        ELSE ((x + (I32Max \div 2 + 1)) * 2 + I32Max) + 1

DoublePlusTwo(x) == x + 2

\* the value the closure of line 11 returns when it does not panic
Double(x) == IF MulOverflows(x) THEN WrappingMul2(x) ELSE x * 2

----------------------------------------------------------------------------
(* Formatting: Display and Debug of the values that are printed            *)

DigitChar(d) == <<"0", "1", "2", "3", "4", "5", "6", "7", "8", "9">>[d + 1]

RECURSIVE DisplayNat(_)
DisplayNat(n) ==
    IF n < 10 THEN DigitChar(n)
    ELSE DisplayNat(n \div 10) \o DigitChar(n % 10)

\* {} of a u32 (person.age)
DisplayU32(n) == DisplayNat(n)

\* {:?} of an i32: a minus sign for a negative value, then the magnitude
\* (the magnitude of i32::MIN does not fit the checker's integers and is spelled out)
DebugI32(n) ==
    IF n = I32Min THEN "-2147483648"
    ELSE IF n < 0 THEN "-" \o DisplayNat(-n)
    ELSE DisplayNat(n)

RECURSIVE DebugEntries(_)
DebugEntries(s) ==
    IF Len(s) = 0 THEN ""
    ELSE IF Len(s) = 1 THEN DebugI32(s[1])
    ELSE DebugI32(s[1]) \o ", " \o DebugEntries(Tail(s))

\* {:?} of a Vec<i32>
DebugVec(s) == "[" \o DebugEntries(s) \o "]"

\* {} of a String
DisplayString(s) == s

\* {:?} of a String without characters to escape
DebugString(s) == "\"" \o s \o "\""

----------------------------------------------------------------------------
(* Literals of main                                                        *)

GreetingLine == "Hello from Rust! Testing syntax highlighting"

NumbersWithLargeElement == <<1, 2, 3, 4, 1073741824>>

\* vec![1, 2, 3, 4, 5]
NumbersLiteral == <<1, 2, 3, 4, 5>>

PersonAge == 30

PersonLiteral == [name |-> "Alice", age |-> PersonAge]

OriginalLine(v) == "Original numbers: " \o DebugVec(v)

DoubledLine(v) == "Doubled numbers: " \o DebugVec(v)

PersonLineDebugName(p) == DebugString(p.name) \o " is " \o DisplayU32(p.age) \o " years old"

\* "{} is {} years old", person.name, person.age
PersonLine(p) == DisplayString(p.name) \o " is " \o DisplayU32(p.age) \o " years old"

ExitSuccess == 0
ExitPanic == 101

----------------------------------------------------------------------------
(* State after process start, and the statements of main                   *)

TypeOK ==
    /\ overflowChecks \in BOOLEAN
    /\ pc \in [Runs -> {"hello", "vec", "iter", "map", "print_original", "print_doubled",
                        "person", "print_person", "return", "done", "panicked"}]
    /\ \A r \in Runs :
        /\ numbers[r] \in Seq(Int) /\ collected[r] \in Seq(Int) /\ doubled[r] \in Seq(Int)
        /\ iterPos[r] \in 0..Len(numbers[r])
        /\ Len(person[r]) <= 1 /\ Len(exitCode[r]) <= 1
        /\ stdout[r] \in Seq(STRING)

Init ==
    /\ overflowChecks \in BOOLEAN
    /\ pc = [r \in Runs |-> "hello"]
    /\ numbers = [r \in Runs |-> <<>>]
    /\ iterPos = [r \in Runs |-> 0]
    /\ collected = [r \in Runs |-> <<>>]
    /\ doubled = [r \in Runs |-> <<>>]
    /\ person = [r \in Runs |-> None]
    /\ stdout = [r \in Runs |-> <<>>]
    /\ exitCode = [r \in Runs |-> None]

\* number of runs that have ended
EndedRuns == Cardinality({q \in Runs : exitCode[q] # None})

PrintlnStamped(r, line) ==
    stdout' = [stdout EXCEPT ![r] = Append(@, DisplayNat(EndedRuns) \o " " \o line)]

\* println!: one more line on the run's own standard output
Println(r, line) == stdout' = [stdout EXCEPT ![r] = Append(@, line)]

\* line 4
PrintHello(r) ==
    /\ pc[r] = "hello"
    /\ Println(r, GreetingLine)
    /\ pc' = [pc EXCEPT ![r] = "vec"]
    /\ UNCHANGED <<overflowChecks, numbers, iterPos, collected, doubled, person, exitCode>>

\* line 7
LetNumbers(r) ==
    /\ pc[r] = "vec"
    /\ numbers' = [numbers EXCEPT ![r] = NumbersLiteral]
    /\ pc' = [pc EXCEPT ![r] = "iter"]
    /\ UNCHANGED <<overflowChecks, iterPos, collected, doubled, person, stdout, exitCode>>

\* line 10: numbers.iter(), and the empty Vec collect() starts from
Iter(r) ==
    /\ pc[r] = "iter"
    /\ iterPos' = [iterPos EXCEPT ![r] = 0]
    /\ collected' = [collected EXCEPT ![r] = <<>>]
    /\ pc' = [pc EXCEPT ![r] = "map"]
    /\ UNCHANGED <<overflowChecks, numbers, doubled, person, stdout, exitCode>>

IterExhaustedOneEarly(r) == iterPos[r] >= Len(numbers[r]) - 1

\* the slice iterator has no element left
IterExhausted(r) == iterPos[r] = Len(numbers[r])

MapNextInPlace(r) ==
    /\ pc[r] = "map"
    /\ ~IterExhausted(r)
    /\ LET x == numbers[r][iterPos[r] + 1] IN
        IF overflowChecks /\ MulOverflows(x)
            THEN /\ pc' = [pc EXCEPT ![r] = "panicked"]
                 /\ exitCode' = [exitCode EXCEPT ![r] = Some(ExitPanic)]
                 /\ UNCHANGED <<numbers, iterPos, collected>>
            ELSE /\ numbers' = [numbers EXCEPT ![r][iterPos[r] + 1] = Double(x)]
                 /\ collected' = [collected EXCEPT ![r] = Append(@, Double(x))]
                 /\ iterPos' = [iterPos EXCEPT ![r] = @ + 1]
                 /\ UNCHANGED <<pc, exitCode>>
    /\ UNCHANGED <<overflowChecks, doubled, person, stdout>>

MapNextStuck(r) ==
    /\ pc[r] = "map"
    /\ ~IterExhausted(r)
    /\ UNCHANGED vars

\* lines 10-12: one turn of collect(): the iterator yields the next element, the
\* closure doubles it (a panic when the product overflows and the build checks
\* overflow), and the result is pushed
MapNext(r) ==
    /\ pc[r] = "map"
    /\ ~IterExhausted(r)
    /\ LET x == numbers[r][iterPos[r] + 1] IN
        IF overflowChecks /\ MulOverflows(x)
            THEN /\ pc' = [pc EXCEPT ![r] = "panicked"]
                 /\ exitCode' = [exitCode EXCEPT ![r] = Some(ExitPanic)]
                 /\ UNCHANGED <<iterPos, collected>>
            ELSE /\ collected' = [collected EXCEPT ![r] = Append(@, Double(x))]
                 /\ iterPos' = [iterPos EXCEPT ![r] = @ + 1]
                 /\ UNCHANGED <<pc, exitCode>>
    /\ UNCHANGED <<overflowChecks, numbers, doubled, person, stdout>>

\* lines 10-12: the iterator is exhausted, collect() returns and doubled is bound
Collect(r) ==
    /\ pc[r] = "map"
    /\ IterExhausted(r)
    /\ doubled' = [doubled EXCEPT ![r] = collected[r]]
    /\ pc' = [pc EXCEPT ![r] = "print_original"]
    /\ UNCHANGED <<overflowChecks, numbers, iterPos, collected, person, stdout, exitCode>>

PrintOriginalAsDoubled(r) ==
    /\ pc[r] = "print_original"
    /\ Println(r, DoubledLine(doubled[r]))
    /\ pc' = [pc EXCEPT ![r] = "print_doubled"]
    /\ UNCHANGED <<overflowChecks, numbers, iterPos, collected, doubled, person, exitCode>>

\* line 15
PrintOriginal(r) ==
    /\ pc[r] = "print_original"
    /\ Println(r, OriginalLine(numbers[r]))
    /\ pc' = [pc EXCEPT ![r] = "print_doubled"]
    /\ UNCHANGED <<overflowChecks, numbers, iterPos, collected, doubled, person, exitCode>>

\* line 16
PrintDoubled(r) ==
    /\ pc[r] = "print_doubled"
    /\ Println(r, DoubledLine(doubled[r]))
    /\ pc' = [pc EXCEPT ![r] = "person"]
    /\ UNCHANGED <<overflowChecks, numbers, iterPos, collected, doubled, person, exitCode>>

\* lines 25-28
LetPerson(r) ==
    /\ pc[r] = "person"
    /\ person' = [person EXCEPT ![r] = Some(PersonLiteral)]
    /\ pc' = [pc EXCEPT ![r] = "print_person"]
    /\ UNCHANGED <<overflowChecks, numbers, iterPos, collected, doubled, stdout, exitCode>>

PrintPersonTwoLines(r) ==
    /\ pc[r] = "print_person"
    /\ stdout' = [stdout EXCEPT ![r] =
                    @ \o <<DisplayString(person[r][1].name), PersonLine(person[r][1])>>]
    /\ pc' = [pc EXCEPT ![r] = "return"]
    /\ UNCHANGED <<overflowChecks, numbers, iterPos, collected, doubled, person, exitCode>>

\* line 31
PrintPerson(r) ==
    /\ pc[r] = "print_person"
    /\ Println(r, PersonLine(person[r][1]))
    /\ pc' = [pc EXCEPT ![r] = "return"]
    /\ UNCHANGED <<overflowChecks, numbers, iterPos, collected, doubled, person, exitCode>>

\* line 32: main returns (), the process ends with the success status
Return(r) ==
    /\ pc[r] = "return"
    /\ exitCode' = [exitCode EXCEPT ![r] = Some(ExitSuccess)]
    /\ pc' = [pc EXCEPT ![r] = "done"]
    /\ UNCHANGED <<overflowChecks, numbers, iterPos, collected, doubled, person, stdout>>

Step(r) ==
    \/ PrintHello(r)
    \/ LetNumbers(r)
    \/ Iter(r)
    \/ MapNext(r)
    \/ Collect(r)
    \/ PrintOriginal(r)
    \/ PrintDoubled(r)
    \/ LetPerson(r)
    \/ PrintPerson(r)
    \/ Return(r)

Next == \E r \in Runs : Step(r)

Spec == Init /\ [][Next]_vars

\* every started process keeps being scheduled until it ends
FairSpec == Spec /\ \A r \in Runs : WF_vars(Step(r))

----------------------------------------------------------------------------
(* Properties                                                              *)

\* run r has bound numbers (line 7 has run)
NumbersBound(r) == pc[r] \notin {"hello", "vec"}

\* run r has bound doubled (collect() of line 12 has returned)
DoubledBuilt(r) ==
    pc[r] \in {"print_original", "print_doubled", "person", "print_person", "return", "done"}

IsPrefix(s, t) == Len(s) <= Len(t) /\ s = SubSeq(t, 1, Len(s))

\* C1, as stated: when a run has terminated it has written five lines to standard
\* output.
C1_FiveLinesAtExit ==
    \A r \in Runs : exitCode[r] # None => Len(stdout[r]) = 5

\* C1, amended: a run never writes more than four lines, and when it has
\* terminated it has written exactly four: the greeting, the Original numbers
\* line, the Doubled numbers line and the person sentence, in that order.
C1_FourLinesAtExit ==
    \A r \in Runs :
        /\ Len(stdout[r]) <= 4
        /\ exitCode[r] # None =>
            /\ Len(stdout[r]) = 4
            /\ stdout[r] = <<"Hello from Rust! Testing syntax highlighting",
                             "Original numbers: [1, 2, 3, 4, 5]",
                             "Doubled numbers: [2, 4, 6, 8, 10]",
                             "Alice is 30 years old">>

C1_Witness ==
    \E r \in Runs : pc[r] = "done" /\ exitCode[r] = Some(0) /\ Len(stdout[r]) = 4

\* C2: once doubled is built, every element of doubled is twice the element of
\* numbers at the same index, for every index of numbers, and doubled is
\* [2, 4, 6, 8, 10].
C2_DoubledIsTwiceNumbers ==
    \A r \in Runs : DoubledBuilt(r) =>
        /\ \A i \in 1..Len(numbers[r]) :
              i \in DOMAIN doubled[r] /\ doubled[r][i] = 2 * numbers[r][i]
        /\ doubled[r] = <<2, 4, 6, 8, 10>>

C2_Witness ==
    \E r \in Runs : pc[r] = "print_original" /\ doubled[r] = <<2, 4, 6, 8, 10>>
                    /\ numbers[r] = <<1, 2, 3, 4, 5>>

\* C3: in every state from the one where doubled is built on, doubled and numbers
\* have the same length, and that length is 5.
C3_LengthsEqualFive ==
    \A r \in Runs : DoubledBuilt(r) =>
        Len(doubled[r]) = Len(numbers[r]) /\ Len(numbers[r]) = 5

C3_Witness ==
    \E r \in Runs : pc[r] = "done" /\ Len(doubled[r]) = 5 /\ Len(numbers[r]) = 5

\* C4: at every moment the lines a run has written are an initial part of the
\* fixed order greeting, Original numbers, Doubled numbers, person sentence: no
\* line comes before one that precedes it in this order and none is repeated.
C4_OutputInFixedOrder ==
    \A r \in Runs :
        IsPrefix(stdout[r], <<"Hello from Rust! Testing syntax highlighting",
                              "Original numbers: [1, 2, 3, 4, 5]",
                              "Doubled numbers: [2, 4, 6, 8, 10]",
                              "Alice is 30 years old">>)

C4_Witness ==
    \E r \in Runs : pc[r] = "person" /\ Len(stdout[r]) = 3
                    /\ stdout[r][3] = "Doubled numbers: [2, 4, 6, 8, 10]"

\* C5: the person record has name "Alice" and age 30, and the sentence printed
\* for it, the last line of the output once it is printed, is exactly
\* "Alice is 30 years old".
C5_PersonSentence ==
    \A r \in Runs :
        /\ person[r] # None => person[r][1] = [name |-> "Alice", age |-> 30]
        /\ pc[r] \in {"return", "done"} =>
              stdout[r][Len(stdout[r])] = "Alice is 30 years old"

C5_Witness ==
    \E r \in Runs : pc[r] = "return" /\ person[r] # None /\ Len(stdout[r]) = 4

\* C6: no run ever ends in a panic or with a status other than 0, and every run
\* that keeps being scheduled reaches completion with exit status 0.
C6_TerminatesWithSuccess ==
    /\ [](\A r \in Runs : pc[r] # "panicked" /\ (exitCode[r] # None => exitCode[r] = Some(0)))
    /\ <>(\A r \in Runs : pc[r] = "done" /\ exitCode[r] = Some(0))

C6_Witness ==
    \A r \in Runs : pc[r] = "done" /\ exitCode[r] = Some(0)

\* C7: any two runs agree: the output of one is always an initial part of the
\* output of the other, and two runs at the same point of main have written the
\* same lines and hold the same values, whatever the other run has done so far.
C7_RunsAgree ==
    \A r1, r2 \in Runs :
        /\ IsPrefix(stdout[r1], stdout[r2]) \/ IsPrefix(stdout[r2], stdout[r1])
        /\ (pc[r1] = pc[r2] /\ iterPos[r1] = iterPos[r2]) =>
              /\ stdout[r1] = stdout[r2]
              /\ numbers[r1] = numbers[r2]
              /\ collected[r1] = collected[r2]
              /\ doubled[r1] = doubled[r2]
              /\ person[r1] = person[r2]
              /\ exitCode[r1] = exitCode[r2]

C7_Witness ==
    \E r1, r2 \in Runs :
        /\ r1 # r2
        /\ pc[r1] = "done" /\ pc[r2] = "print_doubled"
        /\ Len(stdout[r1]) = 4 /\ Len(stdout[r2]) = 2

\* C8: from the moment numbers is bound it equals [1, 2, 3, 4, 5] in every state,
\* building doubled included, and the Original numbers line, printed after
\* doubled is built, shows these values.
C8_NumbersNeverMutated ==
    \A r \in Runs :
        /\ NumbersBound(r) => numbers[r] = <<1, 2, 3, 4, 5>>
        /\ Len(stdout[r]) >= 2 =>
              /\ DoubledBuilt(r)
              /\ stdout[r][2] = "Original numbers: [1, 2, 3, 4, 5]"

C8_Witness ==
    \E r \in Runs : pc[r] = "print_doubled" /\ Len(stdout[r]) = 2
                    /\ doubled[r] = <<2, 4, 6, 8, 10>>

\* C9: every element x of numbers has x * 2 within [-2^31, 2^31 - 1], that is
\* -2^30 <= x <= 2^30 - 1; no run panics in the closure, and every value pushed
\* is the exact product, not a wrapped one.
C9_DoublingNeverOverflows ==
    \A r \in Runs :
        /\ pc[r] # "panicked"
        /\ \A i \in 1..Len(numbers[r]) :
              /\ numbers[r][i] >= -1073741824
              /\ numbers[r][i] <= 1073741823
              /\ i <= Len(collected[r]) => collected[r][i] = numbers[r][i] * 2

C9_Witness ==
    \E r \in Runs : pc[r] = "map" /\ iterPos[r] = 5 /\ collected[r] = <<2, 4, 6, 8, 10>>

====
